---- MODULE Spec2Model ----
(***************************************************************************)
(* Model of src/lib.rs of pdf_merger: pdf_get_size, make_page_count_even   *)
(* and insert, over an abstract object graph of the lopdf Document Store.  *)
(*                                                                         *)
(* An ObjectId is a pair <<number, generation>>.  An Object is a           *)
(* dictionary: a function from key names to Values.  A Value is a record   *)
(* [kind, n, s, refs] (integer, name, reference or array of references).   *)
(* A Document is [objects, root, max_id]; root is a sequence holding the   *)
(* trailer's Root reference, or empty when the trailer has none.           *)
(***************************************************************************)
EXTENDS Integers, Sequences, FiniteSets, TLC

\* ---------------------------------------------------------------- bounds
MaxDstPages == 2
MaxSrcPages == 2
MaxPoints == 2
MaxCalls == 2
MaxTreeDepth == 3

\* ---------------------------------------------------------------- values
IntV(n) == [kind |-> "int", n |-> n, s |-> "", refs |-> <<>>]
NameV(s) == [kind |-> "name", n |-> 0, s |-> s, refs |-> <<>>]
RefV(id) == [kind |-> "ref", n |-> 0, s |-> "", refs |-> <<id>>]
ArrV(ids) == [kind |-> "arr", n |-> 0, s |-> "", refs |-> ids]

EmptyDict == <<>>

\* Dictionary::set
DictSet(d, k, v) == (k :> v) @@ d

\* Dictionary::remove
DictRemove(d, k) == [x \in (DOMAIN d) \ {k} |-> d[x]] @@ EmptyDict

\* Dictionary::extend: every entry of other is set in self
DictExtend(self, other) == other @@ self

\* Object::type_name().unwrap_or("")
type_name(object) ==
    IF "Type" \in DOMAIN object /\ object["Type"].kind = "name"
    THEN object["Type"].s
    ELSE ""

\* BTreeMap::extend / insert of many: entries of g replace those of f
Extend(f, g) == g @@ f

EmptyMap == <<>>

\* Ord of ObjectId = (u32, u16): lexicographic
IdLess(a, b) == a[1] < b[1] \/ (a[1] = b[1] /\ a[2] < b[2])

\* the keys of a BTreeMap<ObjectId, _> in iteration order
RECURSIVE SortIds(_)
SortIds(S) ==
    IF S = {} THEN <<>>
    ELSE LET m == CHOOSE x \in S : \A y \in S : x = y \/ IdLess(x, y)
         IN <<m>> \o SortIds(S \ {m})

Contains(seq, x) == \E i \in 1..Len(seq) : seq[i] = x

\* ------------------------------------------------- Document Store (lopdf)
EmptyDocument == [objects |-> EmptyMap, root |-> <<>>, max_id |-> 0]

HasRef(object, k) == k \in DOMAIN object /\ object[k].kind = "ref"

\* Document::catalog: the dictionary the trailer's Root refers to
HasCatalog(doc) == Len(doc.root) = 1 /\ doc.root[1] \in DOMAIN doc.objects
catalog(doc) == doc.objects[doc.root[1]]

\* the page tree's root: catalog.get(b"Pages") as a reference to an object
HasPagesRoot(doc) ==
    /\ HasCatalog(doc)
    /\ HasRef(catalog(doc), "Pages")
    /\ catalog(doc)["Pages"].refs[1] \in DOMAIN doc.objects
PagesRootId(doc) == catalog(doc)["Pages"].refs[1]

\* depth limit of the page tree iteration
PageTreeDepthLimit == MaxTreeDepth

Kids(doc, id) ==
    IF id \in DOMAIN doc.objects /\ "Kids" \in DOMAIN doc.objects[id]
       /\ doc.objects[id]["Kids"].kind = "arr"
    THEN doc.objects[id]["Kids"].refs
    ELSE <<>>

\* page tree iteration: the leaves typed Page, in Kids order, descending
\* into kids typed Pages
RECURSIVE PageTree(_, _, _, _)
PageTree(doc, kids, i, depth) ==
    IF i > Len(kids) THEN <<>>
    ELSE LET kid == kids[i]
             t == IF kid \in DOMAIN doc.objects
                  THEN type_name(doc.objects[kid]) ELSE ""
             here == IF t = "Page" THEN <<kid>>
                     ELSE IF t = "Pages" /\ depth < PageTreeDepthLimit
                     THEN PageTree(doc, Kids(doc, kid), 1, depth + 1)
                     ELSE <<>>
         IN here \o PageTree(doc, kids, i + 1, depth)

\* Document::get_pages: the page object ids in page order
get_pages(doc) ==
    IF HasPagesRoot(doc)
    THEN PageTree(doc, Kids(doc, PagesRootId(doc)), 1, 0)
    ELSE <<>>

\* Document::renumber_objects_with: ids in ascending order get
\* starting_id, starting_id + 1, ... (generation kept); every reference to
\* a renumbered object is rewritten; max_id is the last id given
renumber_objects_with(doc, starting_id) ==
    LET ids == SortIds(DOMAIN doc.objects)
        n == Len(ids)
        newId(i) == <<starting_id + i - 1, ids[i][2]>>
        replace(id) ==
            IF id \in DOMAIN doc.objects
            THEN newId(CHOOSE i \in 1..n : ids[i] = id)
            ELSE id
        mapValue(v) == [v EXCEPT !.refs = [j \in 1..Len(v.refs) |-> replace(v.refs[j])]]
        mapObject(o) == [k \in DOMAIN o |-> mapValue(o[k])] @@ EmptyDict
    IN [objects |-> [nid \in {newId(i) : i \in 1..n} |->
                        mapObject(doc.objects[ids[nid[1] - starting_id + 1]])]
                    @@ EmptyMap,
        root |-> [j \in 1..Len(doc.root) |-> replace(doc.root[j])],
        max_id |-> starting_id + n - 1]

\* Document::renumber_objects
renumber_objects(doc) == renumber_objects_with(doc, 1)

\* pdf_get_size
pdf_get_size(doc) == Len(get_pages(doc))

\* Document::add_object: the object gets id (max_id + 1, 0)
add_object(doc, object) ==
    [doc EXCEPT !.max_id = doc.max_id + 1,
                !.objects = Extend(doc.objects, <<doc.max_id + 1, 0>> :> object)]

\* ------------------------------------------------------------ insert
\* lines 103-108: the position given to the j-th destination page (j >= 1);
\* origin_page_count is j - 1 when the page is visited
RECURSIVE DstResultIndex(_, _, _)
DstResultIndex(ap, src_num_pages, j) ==
    IF j = 0 THEN 0
    ELSE DstResultIndex(ap, src_num_pages, j - 1)
         + (IF Contains(ap, j - 1) THEN src_num_pages ELSE 0) + 1

\* SrcResultIndex counting the source pages downwards: the copy is reversed
SrcResultIndexReversed(ap, src_num_pages, idx, m) ==
    ap[idx] + (idx - 1) * src_num_pages + (src_num_pages + 1 - m)

\* lines 127, 133, 141: the position given to the m-th source page at the
\* idx-th insertion point; added_pages is (idx - 1) * src_num_pages
SrcResultIndex(ap, src_num_pages, idx, m) ==
    ap[idx] + (idx - 1) * src_num_pages + m

\* collect::<BTreeMap<ObjectId, Object>>() of pairs: a later pair replaces
\* an earlier one with the same key
RECURSIVE Collect(_, _, _)
Collect(keys, objects, i) ==
    IF i = 0 THEN EmptyMap
    ELSE Extend(Collect(keys, objects, i - 1), keys[i] :> objects[i])

\* lines 99-115: the destination pages keyed by (position, generation)
DstPagesTable(document_dst, ap, src_num_pages) ==
    LET pages == get_pages(document_dst)
    IN Collect([j \in 1..Len(pages) |->
                    <<DstResultIndex(ap, src_num_pages, j), pages[j][2]>>],
               [j \in 1..Len(pages) |-> document_dst.objects[pages[j]]],
               Len(pages))

\* lines 126-142: the source pages, once per insertion point
RECURSIVE SrcPagesTable(_, _, _, _, _)
SrcPagesTable(table, document_src, ap, idx, src_num_pages) ==
    IF idx = 0 THEN table
    ELSE LET pages == get_pages(document_src)
         IN Extend(SrcPagesTable(table, document_src, ap, idx - 1, src_num_pages),
                   Collect([m \in 1..Len(pages) |->
                               <<SrcResultIndex(ap, src_num_pages, idx, m), pages[m][2]>>],
                           [m \in 1..Len(pages) |-> document_src.objects[pages[m]]],
                           Len(pages)))

\* line 122: the id the source's renumbering starts at
SrcStartId(max_id) == max_id

\* lines 158-165: the Catalog kept
KeepCatalog(kept, object_id, object) ==
    << [id |-> IF Len(kept) = 1 THEN kept[1].id ELSE object_id,
        object |-> object] >>

\* KeepPages with receiver and argument of extend swapped: the later
\* value wins
KeepPagesLaterWins(kept, object_id, object) ==
    << [id |-> IF Len(kept) = 1 THEN kept[1].id ELSE object_id,
        object |-> IF Len(kept) = 1 THEN DictExtend(kept[1].object, object)
                   ELSE object] >>

\* lines 170-186: the Pages dictionary kept
KeepPages(kept, object_id, object) ==
    << [id |-> IF Len(kept) = 1 THEN kept[1].id ELSE object_id,
        object |-> IF Len(kept) = 1 THEN DictExtend(object, kept[1].object)
                   ELSE object] >>

\* ClassifyStep with unwrap_or("Catalog"): an untyped object counts as a
\* Catalog
ClassifyStepUntypedCatalog(acc, object_id, object) ==
    LET t == type_name(object)
    IN CASE t \in {"Catalog", ""} ->
              [acc EXCEPT !.catalog_object = KeepCatalog(@, object_id, object)]
         [] t = "Pages" ->
              [acc EXCEPT !.pages_object = KeepPages(@, object_id, object)]
         [] t \in {"Page", "Outlines", "Outline"} -> acc
         [] OTHER ->
              [acc EXCEPT !.objects = Extend(@, object_id :> object)]

\* lines 155-198: one round of the loop over documents_objects
ClassifyStep(acc, object_id, object) ==
    LET t == type_name(object)
    IN CASE t = "Catalog" ->
              [acc EXCEPT !.catalog_object = KeepCatalog(@, object_id, object)]
         [] t = "Pages" ->
              [acc EXCEPT !.pages_object = KeepPages(@, object_id, object)]
         [] t \in {"Page", "Outlines", "Outline"} -> acc
         [] OTHER ->
              [acc EXCEPT !.objects = Extend(@, object_id :> object)]

\* lines 148-149: before the loop
NotClassified == [catalog_object |-> <<>>, pages_object |-> <<>>, objects |-> EmptyMap]

\* lines 148-199
RECURSIVE Classify(_, _, _)
Classify(documents_objects, ids, i) ==
    IF i = 0
    THEN NotClassified
    ELSE ClassifyStep(Classify(documents_objects, ids, i - 1),
                      ids[i], documents_objects[ids[i]])

\* lines 208-217: every page, with Parent set, goes into document.objects
\* under its key of documents_pages
InsertPages(objects, documents_pages, pages_id) ==
    Extend(objects,
           [k \in DOMAIN documents_pages |->
               DictSet(documents_pages[k], "Parent", RefV(pages_id))])

\* RebuildPages without the Count update
RebuildPagesKeepCount(pages_object, documents_pages) ==
    DictSet(pages_object.object, "Kids", ArrV(SortIds(DOMAIN documents_pages)))

\* lines 229-247: the Pages dictionary rebuilt
RebuildPages(pages_object, documents_pages) ==
    DictSet(DictSet(pages_object.object, "Count",
                    IntV(Cardinality(DOMAIN documents_pages))),
            "Kids", ArrV(SortIds(DOMAIN documents_pages)))

\* RebuildCatalog without the removal of Outlines
RebuildCatalogKeepOutlines(catalog_object, pages_id) ==
    DictSet(catalog_object.object, "Pages", RefV(pages_id))

\* lines 250-258: the Catalog dictionary rebuilt
RebuildCatalog(catalog_object, pages_id) ==
    DictRemove(DictSet(catalog_object.object, "Pages", RefV(pages_id)), "Outlines")

\* lines 118-119, 145: the assertions on the table of pages
Asserted(table, dst_table, dst_num_pages, total) ==
    /\ Cardinality(DOMAIN dst_table) = dst_num_pages
    /\ Cardinality(DOMAIN table) = total

\* lines 145, 202-205, 220-223: how the call ends
Ending(asserted, c) ==
    IF ~asserted THEN "panic"
    ELSE IF Len(c.pages_object) = 0 THEN "no_pages"
    ELSE IF Len(c.catalog_object) = 0 THEN "no_catalog"
    ELSE "saved"

\* lines 207-263: the merged document at the end of the call
Merged(ending, c, table) ==
    IF ending = "saved"
    THEN LET pages_id == c.pages_object[1].id
             catalog_id == c.catalog_object[1].id
             with_root ==
                 Extend(InsertPages(c.objects, table, pages_id),
                        pages_id :> RebuildPages(c.pages_object[1], table))
             merged ==
                 Extend(with_root,
                        catalog_id :> RebuildCatalog(c.catalog_object[1], pages_id))
         IN [objects |-> merged, root |-> <<catalog_id>>,
             max_id |-> Cardinality(DOMAIN merged)]
    ELSE IF ending = "no_catalog"
    THEN [objects |-> InsertPages(c.objects, table, c.pages_object[1].id),
          root |-> <<>>, max_id |-> 0]
    ELSE IF ending = "no_pages"
    THEN [objects |-> c.objects, root |-> <<>>, max_id |-> 0]
    ELSE EmptyDocument

\* ------------------------------------------------ make_page_count_even
\* lines 33-36: the new empty page
EmptyPage(pages_id) ==
    DictSet(DictSet(EmptyDict, "Type", NameV("Page")), "Parent", RefV(pages_id))

\* AppendPage without the Count update
AppendPageKeepCount(pages, page_id) ==
    DictSet(pages, "Kids", ArrV(Append(pages["Kids"].refs, page_id)))

\* lines 43-50: the Pages root with the page appended and Count + 1
AppendPage(pages, page_id) ==
    DictSet(DictSet(pages, "Kids", ArrV(Append(pages["Kids"].refs, page_id))),
            "Count", IntV(pages["Count"].n + 1))

\* lines 22-55: the document written and how the call ends
make_page_count_even(doc) ==
    LET document_length == Len(get_pages(doc))
        pages_id == PagesRootId(doc)
        with_page == add_object(doc, EmptyPage(pages_id))
        page_id == <<with_page.max_id, 0>>
        pages == with_page.objects[pages_id]
        shaped == /\ "Kids" \in DOMAIN pages /\ pages["Kids"].kind = "arr"
                  /\ "Count" \in DOMAIN pages /\ pages["Count"].kind = "int"
    IN IF document_length % 2 = 0 THEN [outcome |-> "unchanged", file |-> doc]
       ELSE IF ~shaped THEN [outcome |-> "panic", file |-> doc]
       ELSE [outcome |-> "saved",
             file |-> renumber_objects(
                        [with_page EXCEPT !.objects =
                            Extend(@, pages_id :> AppendPage(pages, page_id))])]

\* ------------------------------------------------------ input documents
Variants == {"plain", "nocat", "nopages", "nocount", "outl", "sub", "annot"}

Extras(variant) ==
    IF variant = "outl" THEN 2
    ELSE IF variant \in {"sub", "annot"} THEN 1 ELSE 0

\* A document of n pages.  Its objects in creation order are the Catalog,
\* the Pages root, the pages, a font and the variant's extras; they are
\* numbered in that order, or in the reverse order when rev.  code tells
\* the documents apart (1 destination, 2 source).
BuildDoc(n, rev, variant, g, code) ==
    LET N == n + 3 + Extras(variant)
        Id(i) == <<IF rev THEN N + 1 - i ELSE i, g>>
        catId == Id(1)
        rootId == Id(2)
        pageId(j) == Id(2 + j)
        fontId == Id(3 + n)
        x1 == Id(4 + n)
        x2 == Id(5 + n)
        sub == variant = "sub" /\ n >= 1
        typed(d, t) == DictSet(d, "Type", NameV(t))
        cat0 == ("Pages" :> RefV(rootId)) @@ ("Lang" :> IntV(code))
        cat1 == IF variant = "nocat" THEN cat0 ELSE typed(cat0, "Catalog")
        cat == IF variant = "outl" THEN DictSet(cat1, "Outlines", RefV(x1)) ELSE cat1
        kids == IF sub THEN [j \in 1..n |-> IF j = n THEN x1 ELSE pageId(j)]
                ELSE [j \in 1..n |-> pageId(j)]
        root0 == ("Kids" :> ArrV(kids)) @@ ("MediaBox" :> IntV(code))
                 @@ (IF code = 1 THEN "CropBox" :> IntV(1) ELSE "Rotate" :> IntV(2))
        root1 == IF variant = "nocount" THEN root0 ELSE DictSet(root0, "Count", IntV(n))
        root == IF variant = "nopages" THEN root1 ELSE typed(root1, "Pages")
        page(j) == typed(("Parent" :> RefV(IF sub /\ j = n THEN x1 ELSE rootId))
                         @@ ("Resources" :> RefV(fontId))
                         @@ ("Label" :> IntV(10 * code + j)), "Page")
        font == typed("BaseFont" :> IntV(code), "Font")
        extra1 == IF variant = "outl"
                  THEN typed(("First" :> RefV(x2)) @@ ("Count" :> IntV(1)), "Outlines")
                  ELSE IF variant = "sub"
                  THEN typed(("Parent" :> RefV(rootId))
                             @@ ("Kids" :> ArrV(IF n >= 1 THEN <<pageId(n)>> ELSE <<>>))
                             @@ ("Count" :> IntV(IF n >= 1 THEN 1 ELSE 0))
                             @@ ("Rotate" :> IntV(100 + code))
                             @@ ("MediaBox" :> IntV(100 + code)), "Pages")
                  ELSE typed(IF n >= 1 THEN "P" :> RefV(pageId(1)) ELSE EmptyDict,
                             "Annot")
        extra2 == typed(("Parent" :> RefV(x1))
                        @@ (IF n >= 1 THEN "Dest" :> RefV(pageId(1)) ELSE EmptyDict),
                        "Outline")
        object(i) == IF i = 1 THEN cat
                     ELSE IF i = 2 THEN root
                     ELSE IF i <= 2 + n THEN page(i - 2)
                     ELSE IF i = 3 + n THEN font
                     ELSE IF i = 4 + n THEN extra1
                     ELSE extra2
    IN [objects |-> [id \in {Id(i) : i \in 1..N} |->
                        object(IF rev THEN N + 1 - id[1] ELSE id[1])],
        root |-> <<catId>>,
        max_id |-> N]

\* The destinations tried: the plain document of every size, numbered in
\* creation order and in reverse, and every other variant at the largest size.
DstDocs ==
    {BuildDoc(n, rev, "plain", 0, 1) : n \in 0..MaxDstPages, rev \in BOOLEAN}
    \cup {BuildDoc(MaxDstPages, v = "outl", v, 0, 1) :
            v \in {"nocat", "nopages", "outl", "sub", "annot"}}

\* The sources tried; the source's objects have generation 0, like the
\* destination's, or generation 1.
SrcDocs ==
    {BuildDoc(n, FALSE, "plain", g, 2) : n \in 0..MaxSrcPages, g \in 0..1}
    \cup {BuildDoc(n, TRUE, "plain", 0, 2) : n \in 1..MaxSrcPages}
    \cup {BuildDoc(MaxSrcPages, v = "sub", v, 0, 2) :
            v \in {"nocat", "nopages", "outl", "sub"}}

\* The documents make_page_count_even is tried on.
EvenDocs ==
    {BuildDoc(n, rev, v, 0, 1) :
        n \in 0..(MaxDstPages + 1), rev \in BOOLEAN, v \in Variants}

\* the insertion-point sequences tried on a destination of d pages
RECURSIVE Seqs(_, _)
Seqs(S, k) ==
    IF k = 0 THEN {<<>>}
    ELSE Seqs(S, k - 1) \cup {Append(q, x) : q \in Seqs(S, k - 1), x \in S}

Points(d) == Seqs(0..(d + 1), MaxPoints)

\* ---------------------------------------------------------------- state
VARIABLES
    destination,        \* the destination file
    source,             \* the source file
    original,           \* the destination file before the last call
    calls,              \* calls made so far
    outcome,            \* how the last call ended
    after_pages,        \* insert's argument
    num_pages,          \* insert's locals, as the last call left them
    document_dst,
    document_src,
    documents_pages,
    documents_objects,
    classified,         \* catalog_object, pages_object and document.objects
    document

locals == <<after_pages, num_pages, document_dst, document_src, documents_pages,
            documents_objects, classified, document>>

vars == <<destination, source, original, calls, outcome, locals>>

NoLocals ==
    /\ after_pages = <<>>
    /\ num_pages = 0
    /\ document_dst = EmptyDocument
    /\ document_src = EmptyDocument
    /\ documents_pages = EmptyMap
    /\ documents_objects = EmptyMap
    /\ classified = NotClassified
    /\ document = EmptyDocument

Init ==
    /\ destination \in DstDocs
    /\ source \in SrcDocs
    /\ original = destination
    /\ calls = 0
    /\ outcome = "none"
    /\ NoLocals

\* insert(destination, after_pages, source): lines 68-271
Insert(ap) ==
    /\ calls = 0
    /\ after_pages' = ap
    /\ num_pages' = pdf_get_size(destination) + Len(ap) * pdf_get_size(source)
    /\ document_dst' = renumber_objects_with(destination, num_pages' + 1)
    /\ document_src' = renumber_objects_with(source, SrcStartId(document_dst'.max_id))
    /\ documents_pages' =
          SrcPagesTable(DstPagesTable(document_dst', ap, pdf_get_size(source)),
                        document_src', ap, Len(ap), pdf_get_size(source))
    /\ documents_objects' = Extend(document_dst'.objects, document_src'.objects)
    /\ classified' =
          IF Asserted(documents_pages',
                      DstPagesTable(document_dst', ap, pdf_get_size(source)),
                      pdf_get_size(destination), num_pages')
          THEN Classify(documents_objects', SortIds(DOMAIN documents_objects'),
                        Cardinality(DOMAIN documents_objects'))
          ELSE NotClassified
    /\ outcome' = Ending(Asserted(documents_pages',
                                  DstPagesTable(document_dst', ap, pdf_get_size(source)),
                                  pdf_get_size(destination), num_pages'),
                         classified')
    /\ document' = Merged(outcome', classified', documents_pages')
    /\ destination' = IF outcome' = "saved" THEN renumber_objects(document')
                      ELSE destination
    /\ original' = destination
    /\ calls' = calls + 1
    /\ UNCHANGED source

Next == calls = 0 /\ \E ap \in Points(pdf_get_size(destination)) : Insert(ap)

Spec == Init /\ [][Next]_vars

\* make_page_count_even(destination): lines 22-55
MakePageCountEven ==
    /\ calls < MaxCalls
    /\ outcome' = make_page_count_even(destination).outcome
    /\ destination' = make_page_count_even(destination).file
    /\ original' = destination
    /\ calls' = calls + 1
    /\ UNCHANGED <<source, locals>>

InitEven ==
    /\ destination \in EvenDocs
    /\ source = EmptyDocument
    /\ original = destination
    /\ calls = 0
    /\ outcome = "none"
    /\ NoLocals

NextEven == MakePageCountEven

SpecEven == InitEven /\ [][NextEven]_vars

\* ------------------------------------------------------------ readings
\* the Label of every page, in page order (0 for a page without one)
PageLabels(doc) ==
    [i \in 1..Len(get_pages(doc)) |->
        IF "Label" \in DOMAIN doc.objects[get_pages(doc)[i]]
        THEN doc.objects[get_pages(doc)[i]]["Label"].n
        ELSE 0]

\* the ids of the objects of a table with a declared type, in ascending order
TypedIds(objects, t) == SortIds({id \in DOMAIN objects : type_name(objects[id]) = t})

HasTyped(objects, t) == \E id \in DOMAIN objects : type_name(objects[id]) = t

\* strictly ascending insertion points, each a page index of a d-page document
Ascending(ap) == \A i \in 1..Len(ap) : \A j \in 1..Len(ap) : i < j => ap[i] < ap[j]
InRange(ap, d) == \A i \in 1..Len(ap) : 0 <= ap[i] /\ ap[i] < d

Inserted == calls = 1 /\ outcome # "none"
Saved == Inserted /\ outcome = "saved"

RootOf(doc) == doc.objects[PagesRootId(doc)]

Distinct(seq) == \A i \in 1..Len(seq) : \A j \in 1..Len(seq) : i # j => seq[i] # seq[j]

\* an input with a Catalog-typed object and a Pages-typed object
Locatable(doc) == HasTyped(doc.objects, "Catalog") /\ HasTyped(doc.objects, "Pages")

HasOutline(doc) == HasTyped(doc.objects, "Outlines") \/ HasTyped(doc.objects, "Outline")

\* the merged sequence of labels when the source goes after (before) the
\* destination page of every listed zero-based index
RECURSIVE Splice(_, _, _, _, _)
Splice(dst, src, ap, j, after) ==
    IF j = 0 THEN <<>>
    ELSE Splice(dst, src, ap, j - 1, after)
         \o (IF after
             THEN <<dst[j]>> \o (IF Contains(ap, j - 1) THEN src ELSE <<>>)
             ELSE (IF Contains(ap, j - 1) THEN src ELSE <<>>) \o <<dst[j]>>)

\* ----------------------------------------------------------------- C1
\* C1: when insert completes for ascending distinct insertion points, each a
\* zero-based page index of the destination (0 <= p < d), the saved document
\* has d + k*s pages: its Pages root has d + k*s Kids and Count = d + k*s.
C1_PageCountLaw ==
    (Saved /\ Ascending(after_pages) /\ InRange(after_pages, pdf_get_size(original)))
    => /\ num_pages = pdf_get_size(original) + Len(after_pages) * pdf_get_size(source)
       /\ pdf_get_size(destination) = num_pages
       /\ Len(RootOf(destination)["Kids"].refs) = num_pages
       /\ RootOf(destination)["Count"] = IntV(num_pages)

C1_Witness ==
    /\ Saved
    /\ after_pages = <<0, 1>>
    /\ pdf_get_size(original) = 2
    /\ pdf_get_size(source) = 2
    /\ pdf_get_size(destination) = 6

\* ----------------------------------------------------------------- C2
\* C2 as claimed: every copy of the source comes immediately after the
\* destination page with zero-based index p_i.
C2_OrderAfterPage ==
    (Saved /\ Ascending(after_pages) /\ InRange(after_pages, pdf_get_size(original)))
    => PageLabels(destination)
       = Splice(PageLabels(original), PageLabels(source), after_pages,
                pdf_get_size(original), TRUE)

\* C2 amended: every copy of the source comes immediately before the
\* destination page with zero-based index p_i (after the first p_i pages);
\* destination pages and source pages keep their order.
C2_OrderBeforePage ==
    (Saved /\ Ascending(after_pages) /\ InRange(after_pages, pdf_get_size(original)))
    => PageLabels(destination)
       = Splice(PageLabels(original), PageLabels(source), after_pages,
                pdf_get_size(original), FALSE)

C2_Witness ==
    /\ Saved
    /\ after_pages = <<0, 1>>
    /\ PageLabels(original) = <<11, 12>>
    /\ PageLabels(source) = <<21, 22>>
    /\ PageLabels(destination) = <<21, 22, 11, 21, 22, 12>>

\* ----------------------------------------------------------------- C3
\* C3: a call of make_page_count_even on a document of n pages leaves the
\* file as it was when n is even; when n is odd and the call returns, the
\* document has n + 1 pages, an even number: the pages it had, then one new
\* empty Page whose Parent is the Pages root, the last entry of the root's
\* Kids, with the root's Count one higher.  A further call changes nothing.
C3_AfterCall ==
    calls >= 1 =>
       LET n == pdf_get_size(original)
       IN /\ n % 2 = 0 => (outcome = "unchanged" /\ destination = original)
          /\ n % 2 = 1 => outcome \in {"saved", "panic"}
          /\ outcome = "panic" =>
                (destination = original /\ "Count" \notin DOMAIN RootOf(original))
          /\ outcome = "saved" =>
                LET root == RootOf(destination)
                    kids == root["Kids"].refs
                IN /\ pdf_get_size(destination) = n + 1
                   /\ (n + 1) % 2 = 0
                   /\ PageLabels(destination) = Append(PageLabels(original), 0)
                   /\ Len(kids) = Len(RootOf(original)["Kids"].refs) + 1
                   /\ kids[Len(kids)] = get_pages(destination)[n + 1]
                   /\ destination.objects[kids[Len(kids)]]
                      = EmptyPage(PagesRootId(destination))
                   /\ root["Count"] = IntV(RootOf(original)["Count"].n + 1)
                   /\ Cardinality(DOMAIN destination.objects)
                      = Cardinality(DOMAIN original.objects) + 1

C3_SecondCall ==
    (calls >= 1 /\ outcome # "panic") => destination' = destination

C3_Normalization == []C3_AfterCall /\ [][C3_SecondCall]_vars

C3_Witness ==
    /\ calls = 2
    /\ outcome = "unchanged"
    /\ pdf_get_size(destination) = 4
    /\ PageLabels(destination) = <<11, 12, 13, 0>>

\* ----------------------------------------------------------------- C4
\* C4 as claimed: if either input lacks a Catalog-typed object or a
\* Pages-typed object, the call does not save and the file is unchanged.
C4_EitherLacksNoWrite ==
    (Inserted /\ (~Locatable(original) \/ ~Locatable(source)))
    => (outcome # "saved" /\ destination = original)

\* C4 amended: if neither input holds a Catalog-typed object, or neither
\* holds a Pages-typed object, the call ends without saving and the
\* destination file is what it was.
C4_NeitherHasNoWrite ==
    (Inserted
     /\ \/ ~(HasTyped(original.objects, "Catalog") \/ HasTyped(source.objects, "Catalog"))
        \/ ~(HasTyped(original.objects, "Pages") \/ HasTyped(source.objects, "Pages")))
    => (outcome \in {"no_pages", "no_catalog", "panic"} /\ destination = original)

C4_Witness ==
    /\ Inserted
    /\ ~HasTyped(original.objects, "Catalog")
    /\ ~HasTyped(source.objects, "Catalog")
    /\ pdf_get_size(original) > 0
    /\ outcome = "no_catalog"
    /\ destination = original

\* ----------------------------------------------------------------- C5
\* C5: a saved merge holds no object typed Outlines or Outline and its
\* Catalog has no Outlines field; and inputs with outline objects, each with
\* its Catalog and Pages root, are merged and saved for ascending distinct
\* in-range insertion points.
C5_OutlinesDropped ==
    /\ Saved =>
          /\ ~HasOutline(document) /\ ~HasOutline(destination)
          /\ "Outlines" \notin DOMAIN catalog(destination)
          /\ "Outlines" \notin DOMAIN document.objects[document.root[1]]
    /\ (Inserted /\ (HasOutline(original) \/ HasOutline(source))
        /\ Locatable(original) /\ Locatable(source)
        /\ Ascending(after_pages) /\ InRange(after_pages, pdf_get_size(original)))
       => outcome = "saved"

C5_Witness ==
    /\ Saved
    /\ HasOutline(source)
    /\ "Outlines" \in DOMAIN classified.catalog_object[1].object
    /\ Len(after_pages) = 1
    /\ ~HasOutline(destination)

\* ----------------------------------------------------------------- C6
\* C6: in a saved merge of structurally valid inputs at ascending distinct
\* in-range insertion points, every reference held by an object of the
\* merged table resolves to an object of the merged table.
C6_NoDanglingReference ==
    (Saved /\ Locatable(original) /\ Locatable(source)
     /\ Ascending(after_pages) /\ InRange(after_pages, pdf_get_size(original)))
    => \A id \in DOMAIN document.objects : \A k \in DOMAIN document.objects[id] :
          \A i \in 1..Len(document.objects[id][k].refs) :
              document.objects[id][k].refs[i] \in DOMAIN document.objects

\* ----------------------------------------------------------------- C7
\* C7: with more than one Catalog-typed object in the combined table, the
\* surviving Catalog has the first one's id and the first one's field
\* values (apart from Pages and Outlines).
C7_CatalogFirstWins ==
    (Saved /\ Len(TypedIds(documents_objects, "Catalog")) > 1)
    => LET first == TypedIds(documents_objects, "Catalog")[1]
           kept == document.objects[document.root[1]]
       IN /\ document.root[1] = first
          /\ DOMAIN kept \ {"Pages"}
             = DOMAIN documents_objects[first] \ {"Pages", "Outlines"}
          /\ \A k \in DOMAIN kept \ {"Pages"} : kept[k] = documents_objects[first][k]

\* ----------------------------------------------------------------- C8
\* C8: destination ids are above total_pages, source ids are above every
\* destination id, and every object of either renumbered input that is not
\* typed Catalog, Pages, Page, Outlines or Outline is in the merged table
\* under its id, unchanged.
Special == {"Catalog", "Pages", "Page", "Outlines", "Outline"}

C8_DisjointRanges ==
    Inserted =>
       /\ \A d \in DOMAIN document_dst.objects : d[1] > num_pages
       /\ \A s \in DOMAIN document_src.objects :
             \A d \in DOMAIN document_dst.objects : s[1] > d[1]
       /\ Saved =>
             /\ \A d \in DOMAIN document_dst.objects :
                   type_name(document_dst.objects[d]) \notin Special
                   => (d \in DOMAIN document.objects
                       /\ document.objects[d] = document_dst.objects[d])
             /\ \A s \in DOMAIN document_src.objects :
                   type_name(document_src.objects[s]) \notin Special
                   => (s \in DOMAIN document.objects
                       /\ document.objects[s] = document_src.objects[s])

\* ----------------------------------------------------------------- C9
\* C9: the surviving Pages dictionary has the id of the first Pages-typed
\* object of the combined table, the union of the keys of all of them, and
\* for every key the value of the earliest one that has the key; the saved
\* root differs from it in Count and Kids only.
EarliestWith(ids, k) ==
    ids[CHOOSE i \in 1..Len(ids) :
            /\ k \in DOMAIN documents_objects[ids[i]]
            /\ \A j \in 1..(i - 1) : k \notin DOMAIN documents_objects[ids[j]]]

C9_PagesFirstWins ==
    (Inserted /\ Len(classified.pages_object) = 1)
    => LET ids == TypedIds(documents_objects, "Pages")
           kept == classified.pages_object[1]
       IN /\ kept.id = ids[1]
          /\ DOMAIN kept.object
             = UNION {DOMAIN documents_objects[ids[i]] : i \in 1..Len(ids)}
          /\ \A k \in DOMAIN kept.object :
                kept.object[k] = documents_objects[EarliestWith(ids, k)][k]
          /\ Saved =>
                /\ PagesRootId(document) = ids[1]
                /\ DOMAIN RootOf(document) = DOMAIN kept.object \cup {"Count", "Kids"}
                /\ \A k \in DOMAIN kept.object \ {"Count", "Kids"} :
                      RootOf(document)[k] = kept.object[k]

C9_Witness ==
    /\ Saved
    /\ Len(TypedIds(documents_objects, "Pages")) >= 3
    /\ \E k \in DOMAIN classified.pages_object[1].object :
          /\ k \notin DOMAIN documents_objects[TypedIds(documents_objects, "Pages")[1]]
          /\ \E i \in 2..Len(TypedIds(documents_objects, "Pages")) :
                /\ k \in DOMAIN documents_objects[TypedIds(documents_objects, "Pages")[i]]
                /\ documents_objects[TypedIds(documents_objects, "Pages")[i]][k]
                   # classified.pages_object[1].object[k]

\* ----------------------------------------------------------------- C10
\* the positions lines 104-108 and 127-133 give to the pages
PositionsGiven ==
    {DstResultIndex(after_pages, pdf_get_size(source), j) :
        j \in 1..pdf_get_size(original)}
    \cup {SrcResultIndex(after_pages, pdf_get_size(source), idx, m) :
            idx \in 1..Len(after_pages), m \in 1..pdf_get_size(source)}

\* C10: whatever the insertion points are, a saved Pages root has
\* Count = number of Kids = d + k*s, its Kids are pairwise distinct and each
\* resolves in the merged table to a Page whose Parent is the surviving
\* Pages root; and a call in which two pages get the same position fails at
\* the count assertion.
C10_WellFormedTree ==
    /\ (Inserted /\ Cardinality(PositionsGiven) < num_pages) => outcome = "panic"
    /\ Saved =>
          LET root == RootOf(document)
              kids == root["Kids"].refs
          IN /\ root["Count"] = IntV(Len(kids))
             /\ Len(kids) = pdf_get_size(original)
                            + Len(after_pages) * pdf_get_size(source)
             /\ Distinct(kids)
             /\ \A i \in 1..Len(kids) :
                   /\ kids[i] \in DOMAIN document.objects
                   /\ type_name(document.objects[kids[i]]) = "Page"
                   /\ document.objects[kids[i]]["Parent"] = RefV(PagesRootId(document))

====
